---- MODULE Spec2Model ----
(***************************************************************************)
(* A model of preflyt-check (src/bin/preflyt-check.js): the CLI's main,    *)
(* its two network calls (doScan, createReport), the renderer              *)
(* (printResults), the exit predicate (shouldFail) and the library's scan. *)
(*                                                                         *)
(* Time is abstract: an armed timer may fire at any moment.  The remote    *)
(* services are the environment: a request may be answered by any status   *)
(* code and body of the bounded sets below, may fail with a transport      *)
(* error, or may stay unanswered until the timer fires.                    *)
(***************************************************************************)
EXTENDS Integers, Sequences, FiniteSets, TLC

VARIABLES
    entry,      \* "cli" (main), "lib" (scan), "shouldFail" or "printResults" (the function alone)
    pc,         \* where the entry point stands
    args,       \* the record parseArgs returns
    data,       \* the scan result object main holds (printResults sorts its findings in place)
    parsed,     \* history: the scan result as JSON.parse returned it
    message,    \* main's `message`
    reportUrl,  \* main's `reportUrl`
    out,        \* the lines written to stdout, in order
    exitCode,   \* the argument of process.exit, NoExit before it
    ret,        \* the value shouldFail returned (entry "shouldFail")
    scan,       \* the promise, timer and request of doScan / scan
    report,     \* the promise, timer and request of createReport
    requests    \* the requests issued so far, in order

vars == <<entry, pc, args, data, parsed, message, reportUrl, out, exitCode,
          ret, scan, report, requests>>

(***************************************************************************)
(* Bounds.                                                                 *)
(***************************************************************************)
\* the longest findings array the remote service returns
MaxFindings == 3
\* the longest findings array in a whole run of main
MaxRunFindings == 1

NoExit == -1

(***************************************************************************)
(* Program constants.                                                      *)
(***************************************************************************)
SEVERITY_RANK ==
    [critical |-> 4, high |-> 3, medium |-> 2, low |-> 1, info |-> 0]

SEVERITY_LABELS ==
    [critical |-> "CRIT", high |-> "HIGH", medium |-> "MEDIUM", low |-> "LOW",
     info |-> "INFO"]

DEFAULT_DETAILS_URL == "https://preflyt.dev"

\* the sizes of MESSAGES_CLEAN, _FEW, _SOME, _MANY, _HIGH
MESSAGES ==
    [CLEAN |-> 4, FEW |-> 2, SOME |-> 3, MANY |-> 3, HIGH |-> 2]

\* the `null` of main's `var message = null`
NoMessage == [pool |-> "null", idx |-> 0]
\* the `null` of main's `var reportUrl = null`
NoUrl == ""

(***************************************************************************)
(* Input domains.  A severity the client does not know ("bogus") stands    *)
(* for any level the server may add.                                       *)
(***************************************************************************)
Severities == {"critical", "high", "medium", "low", "info", "bogus"}
Titles == {"t1", "t2"}
Statuses == {"clean", "issues_found", "limit_reached", "error"}

SeqsUpTo(S, n) == UNION {[1..k -> S] : k \in 0..n}

\* The scan results of the bounded domain: findings over a set of findings F,
\* at most n of them; the server's count agrees with the array; categories and
\* scan_time_seconds are absent.
Results(F, n) ==
    {[status |-> s, total_issues |-> Len(fs), findings |-> fs,
      message |-> IF s = "error" THEN "boom" ELSE ""] :
        s \in Statuses, fs \in SeqsUpTo(F, n)}

Findings(T) == {[title |-> t, severity |-> sv] : t \in T, sv \in Severities}

\* JavaScript's null, as a value of its own
Null == [null |-> TRUE]
IsNull(v) == DOMAIN v = {"null"}

(***************************************************************************)
(* JSON text is a sequence of tokens: punctuation, string literals,        *)
(* numbers and the indentation JSON.stringify(_, null, 2) inserts.         *)
(***************************************************************************)
Punct(p) == [t |-> "punct", s |-> p, n |-> 0]
Str(s) == [t |-> "string", s |-> s, n |-> 0]
Num(n) == [t |-> "number", s |-> "", n |-> n]
Indent(n) == [t |-> "indent", s |-> "", n |-> n]
Garbage == [t |-> "garbage", s |-> "<html>", n |-> 0]

\* a member "key": value at indentation d
Member(d, key, valueToks) == <<Indent(d), Str(key), Punct(":")>> \o valueToks

\* the members of an object or the elements of an array, separated by commas
RECURSIVE Separated(_)
Separated(items) ==
    IF items = <<>> THEN <<>>
    ELSE IF Len(items) = 1 THEN items[1]
    ELSE items[1] \o <<Punct(",")>> \o Separated(Tail(items))

StringifyObject(d, members) ==
    IF members = <<>> THEN <<Punct("{"), Punct("}")>>
    ELSE <<Punct("{")>> \o Separated(members) \o <<Indent(d), Punct("}")>>

StringifyFinding(d, f) ==
    StringifyObject(d, << Member(d + 2, "title", <<Str(f.title)>>),
                          Member(d + 2, "severity", <<Str(f.severity)>>) >>)

StringifyArray(d, elems) ==
    IF elems = <<>> THEN <<Punct("["), Punct("]")>>
    ELSE <<Punct("[")>>
         \o Separated([i \in 1..Len(elems) |-> <<Indent(d + 2)>> \o elems[i]])
         \o <<Indent(d), Punct("]")>>

\* JSON.stringify(data, null, 2) of a scan result (or of null)
Stringify(v) ==
    IF IsNull(v) THEN <<Punct("null")>>
    ELSE StringifyObject(0,
        << Member(2, "status", <<Str(v.status)>>),
           Member(2, "total_issues", <<Num(v.total_issues)>>),
           Member(2, "findings",
               StringifyArray(2, [i \in 1..Len(v.findings) |->
                                      StringifyFinding(4, v.findings[i])])),
           Member(2, "message", <<Str(v.message)>>) >>)

\* JSON.stringify of a small object of string members (an error body, a report)
StringifyStrings(keys, vals) ==
    StringifyObject(0, [i \in 1..Len(keys) |-> Member(2, keys[i], <<Str(vals[i])>>)])

\* JSON.parse: white space is skipped, then a recursive descent over the tokens.
\* Each parser returns [ok, val, next]: whether it parsed, the value, and the
\* position after it.
NoIndent(toks) == SelectSeq(toks, LAMBDA k : k.t # "indent")

ParseFail == [ok |-> FALSE, val |-> Null, next |-> 0]
IsPunct(toks, i, p) == i <= Len(toks) /\ toks[i] = Punct(p)

RECURSIVE ParseValue(_, _), ParseElements(_, _, _), ParseMembers(_, _, _)
ParseValue(toks, i) ==
    IF i > Len(toks) THEN ParseFail
    ELSE IF toks[i].t = "string" THEN [ok |-> TRUE, val |-> toks[i].s, next |-> i + 1]
    ELSE IF toks[i].t = "number" THEN [ok |-> TRUE, val |-> toks[i].n, next |-> i + 1]
    ELSE IF toks[i] = Punct("null") THEN [ok |-> TRUE, val |-> Null, next |-> i + 1]
    ELSE IF toks[i] = Punct("[") THEN
        IF IsPunct(toks, i + 1, "]") THEN [ok |-> TRUE, val |-> <<>>, next |-> i + 2]
        ELSE ParseElements(toks, i + 1, <<>>)
    ELSE IF toks[i] = Punct("{") THEN
        IF IsPunct(toks, i + 1, "}") THEN [ok |-> TRUE, val |-> <<>>, next |-> i + 2]
        ELSE ParseMembers(toks, i + 1, <<>>)
    ELSE ParseFail

ParseElements(toks, i, acc) ==
    LET e == ParseValue(toks, i) IN
    IF ~e.ok THEN ParseFail
    ELSE IF IsPunct(toks, e.next, ",")
         THEN ParseElements(toks, e.next + 1, Append(acc, e.val))
    ELSE IF IsPunct(toks, e.next, "]")
         THEN [ok |-> TRUE, val |-> Append(acc, e.val), next |-> e.next + 1]
    ELSE ParseFail

ParseMembers(toks, i, acc) ==
    IF ~(i + 1 <= Len(toks) /\ toks[i].t = "string" /\ toks[i + 1] = Punct(":"))
    THEN ParseFail
    ELSE LET m == ParseValue(toks, i + 2)
             obj == (toks[i].s :> m.val) @@ acc   \* a repeated key: the last one wins
         IN  IF ~m.ok THEN ParseFail
             ELSE IF IsPunct(toks, m.next, ",") THEN ParseMembers(toks, m.next + 1, obj)
             ELSE IF IsPunct(toks, m.next, "}")
                  THEN [ok |-> TRUE, val |-> obj, next |-> m.next + 1]
             ELSE ParseFail

\* JSON.parse(body): [ok |-> FALSE] stands for the SyntaxError it throws
JSONparse(body) ==
    LET toks == NoIndent(body)
        r == ParseValue(toks, 1)
    IN  IF r.ok /\ r.next = Len(toks) + 1 THEN [ok |-> TRUE, val |-> r.val]
        ELSE [ok |-> FALSE, val |-> Null]

(***************************************************************************)
(* Arguments: the records parseArgs can return.  key and timeout do not    *)
(* change the control flow and are left out; url is kept as its kind.      *)
(***************************************************************************)
UrlKinds == {"none", "unparsable", "not_http", "http"}

ArgsSet ==
    [help : BOOLEAN, url : UrlKinds, fail : BOOLEAN, failOn : Severities,
     quiet : BOOLEAN, json : BOOLEAN, share : BOOLEAN]

\* parseArgs of an argv that holds the URL and nothing else
DefaultArgs ==
    [help |-> FALSE, url |-> "http", fail |-> FALSE, failOn |-> "high",
     quiet |-> FALSE, json |-> FALSE, share |-> FALSE]

(***************************************************************************)
(* pickMessage: the pool pickRandom draws from.                            *)
(***************************************************************************)
pickMessage(d) ==
    LET findings == d.findings
        hasHigh == \E i \in 1..Len(findings) :
                       findings[i].severity \in {"high", "critical"}
        count == d.total_issues
    IN  IF hasHigh THEN "HIGH"
        ELSE IF count = 0 THEN "CLEAN"
        ELSE IF count <= 2 THEN "FEW"
        ELSE IF count <= 5 THEN "SOME"
        ELSE "MANY"

\* the values pickRandom(MESSAGES_<pool>) can return
pickRandom(pool) == {[pool |-> pool, idx |-> i] : i \in 1..MESSAGES[pool]}

(***************************************************************************)
(* The severity rank of a finding: SEVERITY_RANK[severity] || 0.           *)
(***************************************************************************)
rankOf(severity) ==
    IF severity \in DOMAIN SEVERITY_RANK THEN SEVERITY_RANK[severity] ELSE 0

\* a comparator with its operands exchanged: ascending
compareFindingsAscending(a, b) == rankOf(a.severity) - rankOf(b.severity)

\* the comparator printResults passes to Array.prototype.sort
compareFindings(a, b) == rankOf(b.severity) - rankOf(a.severity)

\* Array.prototype.sort with compareFindings: a stable sort (ECMAScript 2019),
\* here by insertion: an element moves left past those that compare greater.
RECURSIVE insertFinding(_, _)
insertFinding(sorted, x) ==
    IF sorted = <<>> \/ compareFindings(sorted[Len(sorted)], x) <= 0
    THEN Append(sorted, x)
    ELSE Append(insertFinding(SubSeq(sorted, 1, Len(sorted) - 1), x),
                sorted[Len(sorted)])

RECURSIVE sortFindings(_)
sortFindings(fs) ==
    IF fs = <<>> THEN <<>>
    ELSE insertFinding(sortFindings(SubSeq(fs, 1, Len(fs) - 1)), fs[Len(fs)])

toUpperCase(s) ==
    CASE s = "bogus" -> "BOGUS"
      [] s = "critical" -> "CRITICAL"
      [] s = "high" -> "HIGH"
      [] s = "medium" -> "MEDIUM"
      [] s = "low" -> "LOW"
      [] s = "info" -> "INFO"
      [] OTHER -> s

\* SEVERITY_LABELS[finding.severity] || finding.severity.toUpperCase()
sevLabel(severity) ==
    IF severity \in DOMAIN SEVERITY_LABELS THEN SEVERITY_LABELS[severity]
    ELSE toUpperCase(severity)

(***************************************************************************)
(* Output: one record per console.log call.                                *)
(***************************************************************************)
Line(kind, text, num) ==
    [kind |-> kind, text |-> text, num |-> num, title |-> "", toks |-> <<>>]
Blank == Line("blank", "", 0)
JsonLine(toks) == [Line("json", "", 0) EXCEPT !.toks = toks]
\* "  " + padRight(sevLabel, 8) + finding.title
FindingLine(label, title) == [Line("finding", label, 0) EXCEPT !.title = title]

CATEGORY_ORDER == <<"file_exposure", "server_network", "http_hardening">>

DeployContinues == Line("text", "Deploy continues. No issues blocked.", 0)

MessageLines(msg) ==
    IF msg = NoMessage THEN <<>> ELSE <<Line("message", msg.pool, msg.idx)>>

\* var detailsUrl = reportUrl || "https://preflyt.dev"
detailsUrl(url) == IF url = NoUrl THEN DEFAULT_DETAILS_URL ELSE url

\* a JSON branch that serializes the findings sorted for display
jsonOutputSorted(d) ==
    JsonLine(Stringify([d EXCEPT !.findings = sortFindings(@)]))

\* console.log(JSON.stringify(data, null, 2))
jsonOutput(d) == JsonLine(Stringify(d))

\* printResults(data, args, message, reportUrl): the lines it writes, and the
\* data object as the call leaves it.
printResults(d, a, msg, url) ==
    IF a.json THEN
        [lines |-> <<jsonOutput(d)>>, data |-> d]
    ELSE IF d.status = "limit_reached" THEN
        [lines |-> << Blank, Line("limit_reached", "Free scan limit reached (3/3 used).", 0),
                      Blank, Line("text", "Get unlimited CLI scans with Pro - $9.99/mo", 0),
                      Line("text", "https://preflyt.dev/pricing", 0),
                      Blank, Line("text", "Tip: Add --key YOUR_KEY for unlimited scans.", 0),
                      Blank, DeployContinues, Blank >>,
         data |-> d]
    ELSE IF d.status = "error" THEN
        [lines |-> << Blank,
                      Line("scan_error",
                           IF d.message = "" THEN "unknown error" ELSE d.message, 0),
                      Blank, DeployContinues, Blank >>,
         data |-> d]
    ELSE IF a.quiet THEN
        [lines |-> IF d.status = "clean" THEN <<Line("all_clear", "", 0)>>
                   ELSE <<Line("issues_found", "", d.total_issues)>>,
         data |-> d]
    ELSE
        LET cats == <<Blank>> \o
                    [c \in 1..Len(CATEGORY_ORDER) |->
                         Line("category_clean", CATEGORY_ORDER[c], 0)]
            tail == <<Blank>> \o MessageLines(msg) \o
                    <<Blank, Line("details", detailsUrl(url), 0), Blank>>
        IN  IF d.status = "clean" THEN
                [lines |-> cats \o tail, data |-> d]
            ELSE
                LET findings == sortFindings(d.findings) IN
                [lines |-> cats
                           \o <<Blank, Line("issues_header", "", d.total_issues), Blank>>
                           \o [f \in 1..Len(findings) |->
                                   FindingLine(sevLabel(findings[f].severity),
                                               findings[f].title)]
                           \o tail,
                 data |-> [d EXCEPT !.findings = findings]]

(***************************************************************************)
(* shouldFail(data, args).                                                 *)
(***************************************************************************)
\* var threshold = SEVERITY_RANK[args.failOn] || SEVERITY_RANK.high
threshold(failOn) ==
    IF failOn \in DOMAIN SEVERITY_RANK /\ SEVERITY_RANK[failOn] # 0
    THEN SEVERITY_RANK[failOn]
    ELSE SEVERITY_RANK["high"]

\* the for loop, from index i on
RECURSIVE anyAtOrAbove(_, _, _)
anyAtOrAbove(findings, i, th) ==
    IF i > Len(findings) THEN FALSE
    ELSE IF rankOf(findings[i].severity) >= th THEN TRUE
    ELSE anyAtOrAbove(findings, i + 1, th)

shouldFail(d, a) ==
    IF ~a.fail THEN FALSE
    ELSE IF d.status # "issues_found" THEN FALSE
    ELSE anyAtOrAbove(d.findings, 1, threshold(a.failOn))

(***************************************************************************)
(* Promises, timers and requests.                                          *)
(***************************************************************************)
NoError == [text |-> ""]
Error(text) == [text |-> text]
\* new Error("HTTP " + res.statusCode)
HttpError(code) ==
    Error(CASE code = 500 -> "HTTP 500" [] code = 404 -> "HTTP 404" [] OTHER -> "HTTP")

Pending == [state |-> "pending", value |-> Null, error |-> NoError]
Resolved(v) == [state |-> "resolved", value |-> v, error |-> NoError]
Rejected(e) == [state |-> "rejected", value |-> Null, error |-> e]

\* resolve(v) or reject(e) of `new Promise`: only the first call settles it
settle(p, outcome) == IF p.state = "pending" THEN outcome ELSE p

clearTimeout(timer) == IF timer = "armed" THEN "cleared" ELSE timer

NoEvent == [ev |-> "none", outcome |-> Pending]

\* a call not made yet
NoCall ==
    [timer |-> "none", req |-> "none", promise |-> Pending, events |-> {},
     first |-> NoEvent]

\* history: the first of the call's events, with the outcome its handler passed
\* to resolve or reject
noteFirst(first, ev, outcome) ==
    IF first = NoEvent THEN [ev |-> ev, outcome |-> outcome] ELSE first

\* obj[key] is there and truthy
Truthy(obj, key) == ~IsNull(obj) /\ key \in DOMAIN obj /\ obj[key] # ""

(***************************************************************************)
(* doScan / scan: the executor and the three handlers.                     *)
(***************************************************************************)
\* setTimeout(..., timeoutMs), reqModule.request(...), req.write, req.end
doScan == [NoCall EXCEPT !.timer = "armed", !.req = "open"]

\* what the 'end' handler passes to resolve or reject
scanOutcome(code, body) ==
    LET r == JSONparse(body) IN
    IF code # 200 THEN
        IF ~r.ok \/ IsNull(r.val) THEN Rejected(HttpError(code))
        ELSE IF Truthy(r.val, "detail") THEN Rejected(Error(r.val.detail))
        ELSE IF Truthy(r.val, "message") THEN Rejected(Error(r.val.message))
        ELSE Rejected(HttpError(code))
    ELSE IF r.ok THEN Resolved(r.val)
    ELSE Rejected(Error("Invalid JSON response"))

\* an 'end' handler without clearTimeout(timer)
scanOnEndKeepsTimer(s, code, body) ==
    [s EXCEPT !.req = IF @ = "open" THEN "ended" ELSE @,
              !.promise = settle(@, scanOutcome(code, body)),
              !.events = @ \cup {"end"},
              !.first = noteFirst(@, "end", scanOutcome(code, body))]

\* res.on("end", ...)
scanOnEnd(s, code, body) ==
    [s EXCEPT !.timer = clearTimeout(@),
              !.req = IF @ = "open" THEN "ended" ELSE @,
              !.promise = settle(@, scanOutcome(code, body)),
              !.events = @ \cup {"end"},
              !.first = noteFirst(@, "end", scanOutcome(code, body))]

\* req.on("error", ...)
scanOnError(s, err) ==
    [s EXCEPT !.timer = clearTimeout(@),
              !.req = IF @ = "open" THEN "failed" ELSE @,
              !.promise = settle(@, Rejected(err)),
              !.events = @ \cup {"error"},
              !.first = noteFirst(@, "error", Rejected(err))]

\* a timeout callback that rejects and leaves the request in flight
scanOnTimeoutNoDestroy(s) ==
    [s EXCEPT !.timer = "fired",
              !.promise = settle(@, Rejected(Error("timeout"))),
              !.events = @ \cup {"timer"},
              !.first = noteFirst(@, "timer", Rejected(Error("timeout")))]

\* the setTimeout callback: req.destroy(); reject(new Error("timeout"))
scanOnTimeout(s) ==
    [s EXCEPT !.timer = "fired",
              !.req = "destroyed",
              !.promise = settle(@, Rejected(Error("timeout"))),
              !.events = @ \cup {"timer"},
              !.first = noteFirst(@, "timer", Rejected(Error("timeout")))]

(***************************************************************************)
(* createReport: the executor and the four handlers.                       *)
(***************************************************************************)
\* reqModule.request(...), setTimeout(..., 10000), req.write, req.end
createReport == [NoCall EXCEPT !.timer = "armed", !.req = "open"]

\* the findings of the payload, in the order of scanData.findings
reportPayload(d, msg) ==
    [op |-> "report",
     findings |-> [i \in 1..Len(d.findings) |->
                       [id |-> d.findings[i].title, severity |-> d.findings[i].severity,
                        title |-> d.findings[i].title]],
     total_issues |-> d.total_issues,
     message |-> msg]

scanPayload == [op |-> "scan", findings |-> <<>>, total_issues |-> 0, message |-> NoMessage]

reportOutcome(code, body) ==
    LET r == JSONparse(body) IN
    IF code # 200 THEN Rejected(Error("Failed to create report"))
    ELSE IF r.ok THEN Resolved(r.val)
    ELSE Rejected(Error("Invalid report response"))

\* res.on("end", ...)
reportOnEnd(r, code, body) ==
    [r EXCEPT !.req = IF @ = "open" THEN "ended" ELSE @,
              !.promise = settle(@, reportOutcome(code, body)),
              !.events = @ \cup {"end"},
              !.first = noteFirst(@, "end", reportOutcome(code, body))]

\* req.on("error", ...)
reportOnError(r, err) ==
    [r EXCEPT !.req = IF @ = "open" THEN "failed" ELSE @,
              !.promise = settle(@, Rejected(err)),
              !.events = @ \cup {"error"},
              !.first = noteFirst(@, "error", Rejected(err))]

\* the setTimeout callback
reportOnTimeout(r) ==
    [r EXCEPT !.timer = "fired",
              !.req = "destroyed",
              !.promise = settle(@, Rejected(Error("timeout"))),
              !.events = @ \cup {"timer"},
              !.first = noteFirst(@, "timer", Rejected(Error("timeout")))]

\* req.on("close", ...)
reportOnClose(r) == [r EXCEPT !.timer = clearTimeout(@), !.events = @ \cup {"close"}]

\* the socket closes before the response's body is complete: the request emits
\* 'close', and neither the response's 'end' nor the request's 'error' follows
\* (a runtime that still emits 'end' then is ScanEnd / ReportEnd with a
\* truncated body)
scanOnAbort(s) == [s EXCEPT !.req = "aborted", !.events = @ \cup {"close"}]

reportOnAbort(r) == [reportOnClose(r) EXCEPT !.req = "aborted"]

(***************************************************************************)
(* What the remote services may answer.                                    *)
(***************************************************************************)
RunResults == Results(Findings({"t1"}), MaxRunFindings)

REPORT_LINK == "https://preflyt.dev/report/abc"

ScanResponses ==
    {[code |-> 200, body |-> b] :
        b \in {Stringify(r) : r \in RunResults} \cup {<<Garbage>>, Stringify(Null)}}
    \cup
    {[code |-> 500, body |-> b] :
        b \in {StringifyStrings(<<"detail">>, <<"quota exceeded">>),
               StringifyStrings(<<"message">>, <<"server error">>),
               StringifyStrings(<<"error">>, <<"x">>),
               <<Garbage>>, Stringify(Null)}}

ReportResponses ==
    {[code |-> 200, body |-> b] :
        b \in {StringifyStrings(<<"url">>, <<REPORT_LINK>>),
               StringifyStrings(<<"id">>, <<"abc">>),
               StringifyStrings(<<"url">>, <<"">>),
               <<Garbage>>, Stringify(Null)}}
    \cup {[code |-> 500, body |-> <<Garbage>>]}

\* the error a request reports: a transport failure, or the reset that
\* follows req.destroy()
requestError(req) ==
    IF req = "destroyed" THEN Error("socket hang up") ELSE Error("ECONNREFUSED")

(***************************************************************************)
(* main.                                                                   *)
(***************************************************************************)
\* printHelp(), as one block
helpLines == <<Line("help", "preflyt-check <url> [options]", 0)>>

\* the lines the URL validation writes
urlErrorLines(kind) ==
    IF kind = "not_http"
    THEN <<Blank, Line("text", "URL must start with http:// or https://", 0), Blank>>
    ELSE <<Blank, Line("invalid_url", "Invalid URL", 0),
           Line("text", "URL must start with http:// or https://", 0), Blank>>

\* a condition that leaves out only the error status
wantsReportUnlessError(d) == d.status # "error"

\* a condition that asks for a report only under --share
wantsReportIfShare(d) == args.share /\ d.status \in {"clean", "issues_found"}

\* if (data.status === "clean" || data.status === "issues_found")
wantsReport(d) == d.status \in {"clean", "issues_found"}

\* createReport awaited without the inner try/catch: a rejection escapes
awaitReportUncaught(p) ==
    [escapes |-> p.state = "rejected",
     error |-> p.error,
     url |-> IF p.state = "resolved" /\ Truthy(p.value, "url") THEN p.value.url
             ELSE NoUrl]

\* the inner try/catch around createReport: the value of reportUrl after it,
\* and whether anything escapes to the outer catch
awaitReport(p) ==
    [escapes |-> FALSE,
     error |-> NoError,
     url |-> IF p.state = "resolved" /\ Truthy(p.value, "url") THEN p.value.url
             ELSE NoUrl]

\* a catch block that lets --fail decide the exit code
catchExitFailFlag(a) == IF a.fail THEN 1 ELSE 0

\* the exit code of main's catch block
catchExit(a) == 0

\* the catch block's output
catchLines(a, err) ==
    IF ~a.json
    THEN <<Blank, Line("could_not_complete", err.text, 0), Blank, DeployContinues, Blank>>
    ELSE <<JsonLine(NoIndent(StringifyStrings(<<"status", "url", "message">>,
                                              <<"error", a.url, err.text>>)))>>

\* if (shouldFail(data, args)) process.exit(1); process.exit(0)
exitOf(d, a) == IF shouldFail(d, a) THEN 1 ELSE 0

\* main's catch (err): print, process.exit(0)
MainCatch(err) ==
    /\ out' = out \o catchLines(args, err)
    /\ exitCode' = catchExit(args)
    /\ pc' = "exited"

\* printResults(data, args, message, reportUrl), shouldFail, process.exit
MainFinish(d, msg, url) ==
    LET r == printResults(d, args, msg, url) IN
    /\ out' = out \o r.lines
    /\ data' = r.data
    /\ exitCode' = exitOf(r.data, args)
    /\ pc' = "exited"

\* main up to `await doScan(...)`
MainStart ==
    /\ entry = "cli" /\ pc = "start"
    /\ IF args.help \/ args.url = "none" THEN
           /\ out' = out \o helpLines
           /\ exitCode' = 0
           /\ pc' = "exited"
           /\ UNCHANGED <<scan, requests>>
       ELSE IF args.url # "http" THEN
           /\ out' = out \o urlErrorLines(args.url)
           /\ exitCode' = 0
           /\ pc' = "exited"
           /\ UNCHANGED <<scan, requests>>
       ELSE
           /\ out' = IF args.json THEN out
                     ELSE out \o <<Blank, Line("scanning", "Preflyt scanning", 0)>>
           /\ scan' = doScan
           /\ requests' = Append(requests, scanPayload)
           /\ pc' = "awaitScan"
           /\ UNCHANGED exitCode
    /\ UNCHANGED <<entry, args, data, parsed, message, reportUrl, ret, report>>

\* main from the settlement of doScan's promise to `await createReport(...)`,
\* or to process.exit
MainAfterScan ==
    /\ entry = "cli" /\ pc = "awaitScan"
    /\ scan.promise.state # "pending"
    /\ IF scan.promise.state = "rejected" THEN
           /\ MainCatch(scan.promise.error)
           /\ UNCHANGED <<data, parsed, message, report, requests>>
       ELSE IF IsNull(scan.promise.value) THEN
           \* data.status of null throws a TypeError
           /\ MainCatch(Error("Cannot read properties of null"))
           /\ data' = scan.promise.value
           /\ parsed' = scan.promise.value
           /\ UNCHANGED <<message, report, requests>>
       ELSE IF wantsReport(scan.promise.value) THEN
           /\ data' = scan.promise.value
           /\ parsed' = scan.promise.value
           /\ message' \in pickRandom(pickMessage(scan.promise.value))
           /\ report' = createReport
           /\ requests' = Append(requests, reportPayload(scan.promise.value, message'))
           /\ pc' = "awaitReport"
           /\ UNCHANGED <<out, exitCode>>
       ELSE
           /\ parsed' = scan.promise.value
           /\ MainFinish(scan.promise.value, message, reportUrl)
           /\ UNCHANGED <<message, report, requests>>
    /\ UNCHANGED <<entry, args, reportUrl, ret, scan>>

\* main from the settlement of createReport's promise to process.exit
MainAfterReport ==
    /\ entry = "cli" /\ pc = "awaitReport"
    /\ report.promise.state # "pending"
    /\ LET r == awaitReport(report.promise) IN
       IF r.escapes THEN
           /\ MainCatch(r.error)
           /\ UNCHANGED <<data, reportUrl>>
       ELSE
           /\ reportUrl' = r.url
           /\ MainFinish(data, message, r.url)
    /\ UNCHANGED <<entry, args, parsed, message, ret, scan, report, requests>>

\* the library's scan(url, opts)
LibScan ==
    /\ entry = "lib" /\ pc = "start"
    /\ scan' = doScan
    /\ requests' = Append(requests, scanPayload)
    /\ pc' = "called"
    /\ UNCHANGED <<entry, args, data, parsed, message, reportUrl, out, exitCode,
                   ret, report>>

(***************************************************************************)
(* The events of the two calls.  process.exit ends them all.               *)
(***************************************************************************)
Running == pc # "exited"

\* a request answers or fails at most once, before or after it is destroyed
Answerable(call) ==
    /\ call.req \in {"open", "destroyed"}
    /\ call.events \cap {"end", "error", "close"} = {}

ScanEnd(rsp) ==
    /\ Running /\ Answerable(scan)
    /\ scan' = scanOnEnd(scan, rsp.code, rsp.body)
    /\ UNCHANGED <<entry, pc, args, data, parsed, message, reportUrl, out, exitCode,
                   ret, report, requests>>

ScanError ==
    /\ Running /\ Answerable(scan)
    /\ scan' = scanOnError(scan, requestError(scan.req))
    /\ UNCHANGED <<entry, pc, args, data, parsed, message, reportUrl, out, exitCode,
                   ret, report, requests>>

ScanTimeout ==
    /\ Running /\ scan.timer = "armed"
    /\ scan' = scanOnTimeout(scan)
    /\ UNCHANGED <<entry, pc, args, data, parsed, message, reportUrl, out, exitCode,
                   ret, report, requests>>

\* doScan listens to no 'close': a response cut short leaves its timer armed
ScanAbort ==
    /\ Running /\ Answerable(scan) /\ scan.req = "open"
    /\ scan' = scanOnAbort(scan)
    /\ UNCHANGED <<entry, pc, args, data, parsed, message, reportUrl, out, exitCode,
                   ret, report, requests>>

ReportEnd(rsp) ==
    /\ Running /\ Answerable(report)
    /\ report' = reportOnEnd(report, rsp.code, rsp.body)
    /\ UNCHANGED <<entry, pc, args, data, parsed, message, reportUrl, out, exitCode,
                   ret, scan, requests>>

ReportError ==
    /\ Running /\ Answerable(report)
    /\ report' = reportOnError(report, requestError(report.req))
    /\ UNCHANGED <<entry, pc, args, data, parsed, message, reportUrl, out, exitCode,
                   ret, scan, requests>>

ReportTimeout ==
    /\ Running /\ report.timer = "armed"
    /\ report' = reportOnTimeout(report)
    /\ UNCHANGED <<entry, pc, args, data, parsed, message, reportUrl, out, exitCode,
                   ret, scan, requests>>

\* the request's 'close': after its response ended, it failed or it was destroyed
ReportClose ==
    /\ Running
    /\ report.req \in {"ended", "failed", "destroyed"}
    /\ "close" \notin report.events
    /\ report' = reportOnClose(report)
    /\ UNCHANGED <<entry, pc, args, data, parsed, message, reportUrl, out, exitCode,
                   ret, scan, requests>>

\* the request's 'close' when the report's response is cut short
ReportAbort ==
    /\ Running /\ Answerable(report) /\ report.req = "open"
    /\ report' = reportOnAbort(report)
    /\ UNCHANGED <<entry, pc, args, data, parsed, message, reportUrl, out, exitCode,
                   ret, scan, requests>>

(***************************************************************************)
(* The specification of a run: the CLI with any arguments, or the          *)
(* library's scan.                                                         *)
(***************************************************************************)
Idle ==
    /\ pc = "start"
    /\ out = <<>> /\ exitCode = NoExit /\ ret = FALSE
    /\ scan = NoCall /\ report = NoCall
    /\ requests = <<>>

\* The arguments of the runs checked: --fail-on is read only under --fail
\* (shouldFail returns before it otherwise), so it varies only with --fail.
RunArgs == {a \in ArgsSet : ~a.fail => a.failOn = DefaultArgs.failOn}

Init ==
    /\ \/ entry = "cli" /\ args \in RunArgs
       \/ entry = "lib" /\ args = DefaultArgs
    /\ data = Null /\ parsed = Null
    /\ message = NoMessage /\ reportUrl = NoUrl
    /\ Idle

Next ==
    \/ MainStart
    \/ MainAfterScan
    \/ MainAfterReport
    \/ LibScan
    \/ \E rsp \in ScanResponses : ScanEnd(rsp)
    \/ ScanError
    \/ ScanTimeout
    \/ ScanAbort
    \/ \E rsp \in ReportResponses : ReportEnd(rsp)
    \/ ReportError
    \/ ReportTimeout
    \/ ReportClose
    \/ ReportAbort

Spec == Init /\ [][Next]_vars

(***************************************************************************)
(* shouldFail alone, on every result and flag combination of the bounds.   *)
(***************************************************************************)
InitShouldFail ==
    /\ entry = "shouldFail"
    /\ args \in {[DefaultArgs EXCEPT !.fail = f, !.failOn = t] :
                     f \in BOOLEAN, t \in Severities}
    /\ data \in Results(Findings({"t1"}), MaxFindings)
    /\ parsed = data
    /\ message = NoMessage /\ reportUrl = NoUrl
    /\ Idle

CallShouldFail ==
    /\ entry = "shouldFail" /\ pc = "start"
    /\ ret' = shouldFail(data, args)
    /\ pc' = "returned"
    /\ UNCHANGED <<entry, args, data, parsed, message, reportUrl, out, exitCode,
                   scan, report, requests>>

SpecShouldFail == InitShouldFail /\ [][CallShouldFail]_vars

(***************************************************************************)
(* printResults alone, on every result and output mode of the bounds, with *)
(* the message and the report URL main may pass.                           *)
(***************************************************************************)
InitPrintResults ==
    /\ entry = "printResults"
    /\ args \in {[DefaultArgs EXCEPT !.quiet = q, !.json = j] :
                     q \in BOOLEAN, j \in BOOLEAN}
    /\ data \in Results(Findings(Titles), MaxFindings)
    /\ parsed = data
    /\ IF wantsReport(data)
       THEN /\ message = [pool |-> pickMessage(data), idx |-> 1]
            /\ reportUrl \in {NoUrl, REPORT_LINK}
       ELSE /\ message = NoMessage
            /\ reportUrl = NoUrl
    /\ Idle

CallPrintResults ==
    /\ entry = "printResults" /\ pc = "start"
    /\ LET r == printResults(data, args, message, reportUrl) IN
           /\ out' = r.lines
           /\ data' = r.data
    /\ pc' = "returned"
    /\ UNCHANGED <<entry, args, parsed, message, reportUrl, exitCode, ret,
                   scan, report, requests>>

SpecPrintResults == InitPrintResults /\ [][CallPrintResults]_vars

(***************************************************************************)
(* The properties.                                                         *)
(***************************************************************************)
\* the rank table as the specification states it: critical=4, high=3, medium=2,
\* low=1, info=0, anything else 0
StatedRank(severity) ==
    CASE severity = "critical" -> 4
      [] severity = "high" -> 3
      [] severity = "medium" -> 2
      [] severity = "low" -> 1
      [] OTHER -> 0

\* the exit predicate as the specification states it
StatedPredicate(d, a) ==
    /\ a.fail
    /\ d.status = "issues_found"
    /\ \E i \in 1..Len(d.findings) :
           StatedRank(d.findings[i].severity) >= StatedRank(a.failOn)

\* C1: shouldFail(result, flags) is true if and only if the fail flag is set,
\* the status is issues_found and some finding's rank is at least the rank of
\* the configured fail-on threshold.
C1_ShouldFailIffStated ==
    (entry = "shouldFail" /\ pc = "returned") => (ret <=> StatedPredicate(data, args))

\* C2: the exit code of a run is 1 exactly when the scan returned a result for
\* which the stated exit predicate holds, and 0 in every other run.
C2_ExitCodeIffStated ==
    (entry = "cli" /\ pc = "exited") =>
        /\ exitCode \in {0, 1}
        /\ exitCode = 1 <=> /\ scan.promise.state = "resolved"
                            /\ ~IsNull(parsed)
                            /\ StatedPredicate(parsed, args)

\* a run that ended on an error path: a missing or invalid URL, or a scan that
\* failed (transport, timeout, non-200, malformed body) or returned no object
ErrorPath ==
    /\ entry = "cli" /\ pc = "exited"
    /\ \/ ~args.help /\ args.url # "http"
       \/ scan.promise.state = "rejected"
       \/ scan.promise.state = "resolved" /\ IsNull(scan.promise.value)

\* the last thing written is a message about the failure
ErrorMessageShown ==
    /\ out # <<>>
    /\ \E i \in 1..Len(out) :
           \/ out[i].kind \in {"help", "could_not_complete"}
           \/ out[i].kind = "text" /\ out[i].text = "URL must start with http:// or https://"
           \/ /\ out[i].kind = "json"
              /\ JSONparse(out[i].toks).ok
              /\ JSONparse(out[i].toks).val.status = "error"
              /\ JSONparse(out[i].toks).val.message # ""

\* C3: every error path of a run ends with exit code 0 and a message, also
\* with --fail; exit code 1 is only ever produced after a scan that returned
\* a result, and main stands nowhere but at one of its awaits or at its exit.
C3_ErrorPathsExitZero ==
    /\ ErrorPath => (exitCode = 0 /\ ErrorMessageShown)
    /\ exitCode = 1 => (scan.promise.state = "resolved" /\ ~IsNull(parsed))
    /\ entry = "cli" => pc \in {"start", "awaitScan", "awaitReport", "exited"}
    /\ (entry = "cli" /\ pc = "exited") => exitCode # NoExit

C3_Witness ==
    /\ ErrorPath /\ args.fail /\ args.failOn = "low"
    /\ scan.promise = Rejected(Error("timeout"))
    /\ exitCode = 0

\* C4: the scan call's promise is pending until the first of the timer, the
\* response's end and a request error, takes that event's outcome and keeps
\* it whatever arrives later; the timer coming first destroys the request
\* and rejects with "timeout"; the response or an error coming first clears
\* the timer, which then never fires; while the call is pending its timer
\* is armed.
C4_TimeoutRace ==
    /\ scan.promise = scan.first.outcome
    /\ scan.first.ev = "none" <=> scan.promise.state = "pending"
    /\ scan.first.ev = "timer" =>
           /\ scan.req = "destroyed"
           /\ scan.promise = Rejected(Error("timeout"))
    /\ scan.first.ev \in {"end", "error"} =>
           /\ scan.timer = "cleared"
           /\ "timer" \notin scan.events
           /\ scan.promise # Rejected(Error("timeout"))
    /\ scan.timer = "fired" => scan.first.ev = "timer"
    /\ (scan.req # "none" /\ scan.promise.state = "pending") => scan.timer = "armed"

\* the timer fired first and the response's end arrived afterwards
C4_Witness ==
    /\ entry = "lib"
    /\ scan.first.ev = "timer"
    /\ "end" \in scan.events
    /\ scan.promise = Rejected(Error("timeout"))

ReportRequests == SelectSeq(requests, LAMBDA r : r.op = "report")

\* C5: a report request is issued only after the scan request has resolved
\* with a result of status clean or issues_found, never while the scan request
\* is in flight, and at most once.
C5_ReportOnlyAfterScan ==
    /\ Len(ReportRequests) <= 1
    /\ report.req # "none" <=> Len(ReportRequests) = 1
    /\ Len(ReportRequests) = 1 =>
           /\ requests[1].op = "scan" /\ requests[2].op = "report"
           /\ scan.req = "ended"
           /\ scan.promise.state = "resolved"
           /\ ~IsNull(scan.promise.value)
           /\ scan.promise.value.status \in {"clean", "issues_found"}

C5_Witness ==
    /\ Len(ReportRequests) = 1
    /\ scan.promise.value.status = "issues_found"
    /\ pc = "exited"

\* report creation was attempted and gave no URL
ReportFailed ==
    /\ report.req # "none"
    /\ report.promise.state # "pending"
    /\ ~(report.promise.state = "resolved" /\ Truthy(report.promise.value, "url"))

DetailsLines == SelectSeq(out, LAMBDA l : l.kind = "details")

Banner == IF args.json THEN <<>> ELSE <<Blank, Line("scanning", "Preflyt scanning", 0)>>

C7_RenderDoesNotMutate ==
    (entry = "printResults" /\ pc = "returned") => data = parsed

\* C8: with the JSON flag, printResults writes the serialization of the result
\* and nothing else, whatever the status and the quiet flag; parsed back it
\* equals the original result, findings in their original order.
C8_JsonRoundTrip ==
    (entry = "printResults" /\ pc = "returned" /\ args.json) =>
        /\ Len(out) = 1
        /\ out[1].kind = "json"
        /\ JSONparse(out[1].toks) = [ok |-> TRUE, val |-> parsed]

C8_Witness ==
    /\ entry = "printResults" /\ pc = "returned" /\ args.json /\ args.quiet
    /\ parsed.status = "limit_reached"
    /\ Len(parsed.findings) = 2
    /\ parsed.findings # sortFindings(parsed.findings)

PrintedFindings == SelectSeq(out, LAMBDA l : l.kind = "finding")

\* the rank of a printed finding, by its label
LabelRank(l) ==
    CASE l.text = "CRIT" -> 4
      [] l.text = "HIGH" -> 3
      [] l.text = "MEDIUM" -> 2
      [] l.text = "LOW" -> 1
      [] OTHER -> 0

\* the input findings as lines, in input order
InputFindingLines ==
    [i \in 1..Len(parsed.findings) |->
        FindingLine(IF parsed.findings[i].severity \in DOMAIN SEVERITY_LABELS
                    THEN SEVERITY_LABELS[parsed.findings[i].severity]
                    ELSE "BOGUS",
                    parsed.findings[i].title)]

\* C9: in full mode with status issues_found the findings are printed in
\* non-increasing rank, and the printed findings of each rank are the input
\* findings of that rank in their input order (a permutation, stably sorted).
C9_StableSeveritySort ==
    (/\ entry = "printResults" /\ pc = "returned"
     /\ ~args.json /\ ~args.quiet /\ parsed.status = "issues_found") =>
        /\ Len(PrintedFindings) = Len(parsed.findings)
        /\ \A i \in 1..(Len(PrintedFindings) - 1) :
               LabelRank(PrintedFindings[i]) >= LabelRank(PrintedFindings[i + 1])
        /\ \A r \in 0..4 :
               SelectSeq(PrintedFindings, LAMBDA l : LabelRank(l) = r)
                   = SelectSeq(InputFindingLines, LAMBDA l : LabelRank(l) = r)

C9_Witness ==
    /\ entry = "printResults" /\ pc = "returned"
    /\ ~args.json /\ ~args.quiet /\ parsed.status = "issues_found"
    /\ parsed.findings = << [title |-> "t1", severity |-> "info"],
                            [title |-> "t2", severity |-> "bogus"],
                            [title |-> "t1", severity |-> "high"] >>
    /\ PrintedFindings = << FindingLine("HIGH", "t1"), FindingLine("INFO", "t1"),
                            FindingLine("BOGUS", "t2") >>

\* settled by a response or a request error
SettledByAnswer(call) == call.first.ev \in {"end", "error"}

AwaitedCall == IF pc = "awaitScan" THEN scan ELSE report

\* main is suspended on a promise that is still pending
Suspended ==
    /\ entry = "cli"
    /\ pc \in {"awaitScan", "awaitReport"}
    /\ AwaitedCall.promise.state = "pending"

\* C11: every run of the CLI ends in a process.exit call: main's synchronous
\* paths all end in one, so a run that has not exited either has a step of
\* main to take or is suspended on a promise; whenever it is suspended, the
\* call it awaits has its timer armed, so that the timer's firing settles the
\* promise and main goes on. Main never waits on a promise nothing will settle.
C11_EveryRunExits ==
    Suspended => AwaitedCall.timer = "armed"

\* the scan resolved with a result of status clean or issues_found
ScanOk ==
    /\ scan.promise.state = "resolved"
    /\ ~IsNull(scan.promise.value)
    /\ scan.promise.value.status \in {"clean", "issues_found"}

\* what a run that has exited printed, its exit code and its requests, had its
\* arguments been a, the two services answering as they did and pickRandom
\* choosing as it did
SameRun(a) ==
    IF scan.req = "none" THEN
        /\ out = IF a.help \/ a.url = "none" THEN helpLines ELSE urlErrorLines(a.url)
        /\ exitCode = 0
        /\ requests = <<>>
    ELSE IF scan.promise.state = "rejected" \/ IsNull(scan.promise.value) THEN
        LET err == IF scan.promise.state = "rejected" THEN scan.promise.error
                   ELSE Error("Cannot read properties of null")
        IN  /\ out = Banner \o catchLines(a, err)
            /\ exitCode = catchExit(a)
            /\ requests = <<scanPayload>>
    ELSE
        LET url == IF ScanOk THEN awaitReport(report.promise).url ELSE NoUrl
            r == printResults(parsed, a, message, url)
        IN  /\ out = Banner \o r.lines
            /\ exitCode = exitOf(r.data, a)
            /\ requests = <<scanPayload>> \o
                              IF ScanOk THEN <<reportPayload(parsed, message)>> ELSE <<>>

====
